---- MODULE Spec2Model ----
(***************************************************************************)
(* A model of the mlog logger core (logger.LogExtended): the severity      *)
(* threshold, the buffered writer, the output destinations, the backing    *)
(* file and the sync.RWMutex that guards them, driven by concurrent        *)
(* callers.                                                                *)
(*                                                                         *)
(* logger.go holds two variants of LogExtended.  Spec is the variant the   *)
(* mlog package binds to: it has Close and tees the file with os.Stdout    *)
(* (logger.go lines 203-418).  SpecA is the file-only variant (lines       *)
(* 1-202); the actions that differ there have names ending in A.           *)
(*                                                                         *)
(* Output is a sequence of tokens: a formatted message, or the line        *)
(* terminator log.Logger.Println appends.  bufio.Writer is modelled with   *)
(* its buffer, its capacity (in tokens) and its sticky error.              *)
(***************************************************************************)
EXTENDS Integers, Sequences, FiniteSets, TLC

VARIABLES
    logLevel,   \* l.logLevel
    mu,         \* l.mu: [writer: the caller holding Lock or "none", readers: holders of RLock]
    buf,        \* bytes held by l.bufferWriter and not yet written to the destinations
    bufErr,     \* l.bufferWriter's sticky error (bufio.Writer.err)
    sink,       \* what l.bufferWriter (and l.logger) writes to: [file: handle or NoFile, console: BOOLEAN]
    logFile,    \* l.logFile: a handle, or NoFile for nil
    files,      \* every *os.File the logger opened: handle -> [path, open]
    disk,       \* the content of each file path
    console,    \* what os.Stdout received
    fault,      \* the file system rejects write and sync (disk full, I/O error)
    exited,     \* os.Exit(1) was called
    pc,         \* each caller's position
    op,         \* each caller's current call and its arguments
    ret,        \* what each caller's last call returned
    nCalls,     \* calls made so far (also numbers the messages)
    variant,    \* which LogExtended runs: "tee" or "fileonly"
    hist,       \* history: what became of each Log call, by call number
    lastFlush,  \* history: what the last Flush call did
    writeFailed,\* history: a write to a destination has failed
    lastCall    \* history: the last operation that acted on the logger

vars == <<logLevel, mu, buf, bufErr, sink, logFile, files, disk, console, fault,
          exited, pc, op, ret, nCalls, variant, hist, lastFlush, writeFailed,
          lastCall>>

----------------------------------------------------------------------------
(* Bounds *)

MaxCalls == 4
MaxOpens == 2
BufCap == 4

Callers == {"c1", "c2"}

----------------------------------------------------------------------------
(* Severity *)

LogLevelDebug == 0
LogLevelInfo == 1
LogLevelWarning == 2
LogLevelError == 3
LogLevelFatal == 4

Levels == LogLevelDebug .. LogLevelFatal

\* The levels callers pass: one below the default threshold, one above it, and
\* Fatal.  With the default threshold (Info) every comparison result occurs.
InLevels == {LogLevelDebug, LogLevelWarning, LogLevelFatal}

String(l) ==
    CASE l = LogLevelDebug   -> "DEBUG"
      [] l = LogLevelInfo    -> "INFO"
      [] l = LogLevelWarning -> "WARNING"
      [] l = LogLevelError   -> "ERROR"
      [] l = LogLevelFatal   -> "FATAL"
      [] OTHER               -> "UNKNOWN"

----------------------------------------------------------------------------
(* Messages and lines *)

\* The texts callers log: one without and one with a trailing newline.
Texts == { <<"m">>, <<"m", "\n">> }

EndsInNewline(s) == Len(s) > 0 /\ s[Len(s)] = "\n"

\* What the destinations hold is a sequence of tokens: a message (timestamp,
\* level tag and text up to its trailing newline) or a newline.  id tells the
\* calls apart, as the timestamp and the text do in a run.
Message(id, tag) == [kind |-> "msg", id |-> id, tag |-> tag]
Terminator == [kind |-> "nl", id |-> 0, tag |-> ""]

\* "[<timestamp>] [<LEVEL>] <text>": a trailing newline of the text stays.
formatMessage(level, id, text) ==
    <<Message(id, String(level))>> \o (IF EndsInNewline(text) THEN <<Terminator>> ELSE <<>>)

\* Mutant: a newline is added to every line.
PrintlnSuffixAlways(text) == <<Terminator>>

\* log.Logger.Println adds a newline to a line that does not end in one.
PrintlnSuffix(text) == IF EndsInNewline(text) THEN <<>> ELSE <<Terminator>>

----------------------------------------------------------------------------
(* Files *)

NoFile == 0
Paths == {"a.log", "b.log"}
BadPath == "/nodir/x.log"

\* os.OpenFile succeeds on the paths that can be created.
CanOpen(path) == path \in Paths

\* Mutant: Close leaves the handle open.
CloseFileLeak(fs, h) == fs

\* (*os.File).Close: the handle is closed afterwards; closing twice is an error.
CloseFile(fs, h) == [fs EXCEPT ![h].open = FALSE]
\* Mutant: the error of the file's Close is dropped.
CloseErrNever(fs, h) == FALSE

CloseErr(fs, h) == ~fs[h].open

\* (*os.File).Write and Sync fail on a closed handle and on a failing disk.
FileUsable(fs, h) == fs[h].open /\ ~fault

----------------------------------------------------------------------------
(* bufio.Writer over the destinations *)

\* The state a write goes through: buffer, sticky error, destinations.
\* ok is the result of the last step.
World == [buf |-> buf, err |-> bufErr, console |-> console, disk |-> disk,
          failed |-> writeFailed, ok |-> TRUE]

\* io.MultiWriter(file, os.Stdout).Write, os.Stdout.Write or file.Write: the
\* destinations in order, stopping at the first error.
SinkWrite(w, data) ==
    IF sink.file # NoFile /\ ~FileUsable(files, sink.file)
    THEN [w EXCEPT !.ok = FALSE, !.failed = TRUE]
    ELSE LET d1 == IF sink.file # NoFile
                   THEN [w.disk EXCEPT ![files[sink.file].path] = @ \o data]
                   ELSE w.disk
             c1 == IF sink.console THEN w.console \o data ELSE w.console
         IN  [w EXCEPT !.disk = d1, !.console = c1, !.ok = TRUE]

\* bufio.Writer.Flush: a sticky error is returned at once, an empty buffer is
\* no write; a failed write keeps the bytes and sets the sticky error.
BufFlush(w) ==
    IF w.err THEN [w EXCEPT !.ok = FALSE]
    ELSE IF w.buf = <<>> THEN [w EXCEPT !.ok = TRUE]
    ELSE LET w1 == SinkWrite(w, w.buf)
         IN  IF w1.ok THEN [w1 EXCEPT !.buf = <<>>]
             ELSE [w1 EXCEPT !.err = TRUE]

\* bufio.Writer.Write: token by token, a full buffer is flushed first; after an
\* error nothing more is taken.
\* Mutant: the new bytes go in front of the buffered ones.
BufWrite1Front(w, tok) ==
    IF w.err THEN [w EXCEPT !.ok = FALSE]
    ELSE LET w1 == IF Len(w.buf) >= BufCap THEN BufFlush(w) ELSE w
         IN  IF w1.err THEN [w1 EXCEPT !.ok = FALSE]
             ELSE [w1 EXCEPT !.buf = <<tok>> \o @, !.ok = TRUE]

BufWrite1(w, tok) ==
    IF w.err THEN [w EXCEPT !.ok = FALSE]
    ELSE LET w1 == IF Len(w.buf) >= BufCap THEN BufFlush(w) ELSE w
         IN  IF w1.err THEN [w1 EXCEPT !.ok = FALSE]
             ELSE [w1 EXCEPT !.buf = Append(@, tok), !.ok = TRUE]

RECURSIVE BufWrite(_, _)
BufWrite(w, toks) ==
    IF toks = <<>> THEN w
    ELSE BufWrite(BufWrite1(w, Head(toks)), Tail(toks))

----------------------------------------------------------------------------
(* Initial state: New() *)

NoOp == [name |-> "none", level |-> 0, text |-> <<>>, id |-> 0]
NoHist == [stage |-> "none", file |-> NoFile, caller |-> "none"]
NoFlush == [done |-> FALSE, flushErr |-> FALSE, hadFile |-> FALSE,
            syncTried |-> FALSE, syncErr |-> FALSE]
OtherCall == [name |-> "other", level |-> 0, err |-> FALSE, again |-> FALSE]

New ==
    /\ logLevel = LogLevelInfo
    /\ mu = [writer |-> "none", readers |-> {}]
    /\ buf = <<>>
    /\ bufErr = FALSE
    /\ sink = [file |-> NoFile, console |-> TRUE]
    /\ logFile = NoFile
    /\ files = <<>>
    /\ disk = [p \in Paths |-> <<>>]
    /\ console = <<>>
    /\ fault = FALSE
    /\ exited = FALSE
    /\ pc = [c \in Callers |-> "idle"]
    /\ op = [c \in Callers |-> NoOp]
    /\ ret = [c \in Callers |-> "none"]
    /\ nCalls = 0
    /\ hist = [i \in 1 .. MaxCalls |-> NoHist]
    /\ lastFlush = NoFlush
    /\ writeFailed = FALSE
    /\ lastCall = OtherCall

Init == New /\ variant = "tee"

InitA == New /\ variant = "fileonly"

----------------------------------------------------------------------------
(* Callers enter the logger's methods *)

At(c, p) == ~exited /\ pc[c] = p

\* The arguments of a call are drawn where the method first reads them.
Begin(c, first, name) ==
    /\ At(c, "idle")
    /\ nCalls < MaxCalls
    /\ nCalls' = nCalls + 1
    /\ pc' = [pc EXCEPT ![c] = first]
    /\ op' = [op EXCEPT ![c] = [NoOp EXCEPT !.name = name, !.id = nCalls + 1]]
    /\ ret' = [ret EXCEPT ![c] = "none"]
    /\ UNCHANGED <<logLevel, mu, buf, bufErr, sink, logFile, files, disk, console,
                   fault, exited, variant, hist, lastFlush, writeFailed, lastCall>>

CallSetLogLevel(c) == Begin(c, "lock", "SetLogLevel")

CallSetOutput(c) == Begin(c, "lock", "SetOutput")

CallFlush(c) == Begin(c, "lock", "Flush")

CallClose(c) == Begin(c, "lock", "Close")

CallLog(c) == Begin(c, "rlock", "Log")

CallLogA(c) == Begin(c, "lock", "Log")

\* The file system the logger's files are on starts to fail.
DiskFault ==
    /\ ~exited /\ ~fault
    /\ files # <<>>
    /\ fault' = TRUE
    /\ UNCHANGED <<logLevel, mu, buf, bufErr, sink, logFile, files, disk, console,
                   exited, pc, op, ret, nCalls, variant, hist, lastFlush, writeFailed, lastCall>>

----------------------------------------------------------------------------
(* sync.RWMutex *)

\* Mutant: Lock does not wait for the readers.
CanLockAmongReaders(c) == mu.writer = "none"

CanLock(c) == mu.writer = "none" /\ mu.readers = {}

CanRLock(c) == mu.writer = "none"

\* Mutant: Unlock is missing.
UnlockedNot == mu

Unlocked == [mu EXCEPT !.writer = "none"]

\* l.mu.Lock() of SetLogLevel, SetOutput, Flush, Close and Log; "fatalflush" is
\* the Lock of the Flush that Log calls on a Fatal write.
Lock(c) ==
    /\ ~exited /\ pc[c] \in {"lock", "fatalflush"}
    /\ CanLock(c)
    /\ mu' = [mu EXCEPT !.writer = c]
    /\ pc' = [pc EXCEPT ![c] =
                 IF pc[c] = "fatalflush" THEN "fatalbody"
                 ELSE IF op[c].name # "Log" THEN "body"
                 ELSE IF variant = "tee" THEN "print" ELSE "check"]
    /\ UNCHANGED <<logLevel, buf, bufErr, sink, logFile, files, disk, console, fault,
                   exited, op, ret, nCalls, variant, hist, lastFlush, writeFailed, lastCall>>

\* l.mu.RLock() of Log
RLock(c) ==
    /\ At(c, "rlock")
    /\ CanRLock(c)
    /\ mu' = [mu EXCEPT !.readers = @ \cup {c}]
    /\ pc' = [pc EXCEPT ![c] = "check"]
    /\ \E level \in InLevels : op' = [op EXCEPT ![c].level = level]
    /\ UNCHANGED <<logLevel, buf, bufErr, sink, logFile, files, disk, console, fault,
                   exited, ret, nCalls, variant, hist, lastFlush, writeFailed, lastCall>>

----------------------------------------------------------------------------
(* The operations, each under the exclusive lock *)

Return(c, r) ==
    /\ pc' = [pc EXCEPT ![c] = "idle"]
    /\ op' = [op EXCEPT ![c] = NoOp]
    /\ ret' = [ret EXCEPT ![c] = r]

Commit(w) ==
    /\ buf' = w.buf
    /\ bufErr' = w.err
    /\ console' = w.console
    /\ disk' = w.disk
    /\ writeFailed' = w.failed

\* Mutant: SetLogLevel also flushes the buffer.
SetLogLevelFlushes(c) ==
    /\ At(c, "body") /\ op[c].name = "SetLogLevel"
    /\ \E level \in InLevels :
        /\ logLevel' = level
        /\ lastCall' = [name |-> "SetLogLevel", level |-> level, err |-> FALSE,
                        again |-> lastCall.name = "SetLogLevel" /\ lastCall.level = level]
    /\ Commit(BufFlush(World))
    /\ mu' = Unlocked
    /\ Return(c, "nil")
    /\ UNCHANGED <<sink, logFile, files, fault, exited, nCalls, variant, hist, lastFlush>>

SetLogLevel(c) ==
    /\ At(c, "body") /\ op[c].name = "SetLogLevel"
    /\ \E level \in InLevels :
        /\ logLevel' = level
        /\ lastCall' = [name |-> "SetLogLevel", level |-> level, err |-> FALSE,
                        again |-> lastCall.name = "SetLogLevel" /\ lastCall.level = level]
    /\ mu' = Unlocked
    /\ Return(c, "nil")
    /\ UNCHANGED <<buf, bufErr, sink, logFile, files, disk, console, fault, exited,
                   nCalls, variant, hist, lastFlush, writeFailed>>

\* The new buffered writer over io.MultiWriter(file, os.Stdout)
TeeSink(h) == [file |-> h, console |-> TRUE]

\* SetOutput: flush (the error is dropped), close the held file, open the new
\* one; on success install a new writer, logger and file.
SetOutputTo(c, filepath) ==
    LET w1 == BufFlush(World)
        fs1 == IF logFile # NoFile THEN CloseFile(files, logFile) ELSE files
        h == Len(files) + 1
    IN  /\ console' = w1.console
        /\ disk' = w1.disk
        /\ writeFailed' = w1.failed
        /\ IF ~CanOpen(filepath)
           THEN /\ files' = fs1
                /\ buf' = w1.buf
                /\ bufErr' = w1.err
                /\ UNCHANGED <<sink, logFile>>
                /\ Return(c, "error")
           ELSE /\ files' = Append(fs1, [path |-> filepath, open |-> TRUE])
                /\ sink' = TeeSink(h)
                /\ buf' = <<>>
                /\ bufErr' = FALSE
                /\ logFile' = h
                /\ Return(c, "nil")

SetOutput(c) ==
    /\ At(c, "body") /\ op[c].name = "SetOutput"
    /\ \E filepath \in Paths \cup {BadPath} :
        /\ CanOpen(filepath) => Len(files) < MaxOpens
        /\ SetOutputTo(c, filepath)
    /\ mu' = Unlocked
    /\ UNCHANGED <<logLevel, fault, exited, nCalls, variant, hist, lastFlush>>
    /\ lastCall' = OtherCall

\* What Log does after the Flush of a Fatal write returns: close the file,
\* os.Exit(1).
FatalExit(c) ==
    /\ files' = IF logFile # NoFile THEN CloseFile(files, logFile) ELSE files
    /\ exited' = TRUE
    /\ pc' = [pc EXCEPT ![c] = "exited"]
    /\ UNCHANGED <<op, ret>>

\* Flush: the buffer, then (only after a successful buffer flush) the file's
\* Sync.  At "fatalbody" it is the Flush called by Log.
Flush(c) ==
    /\ ~exited /\ pc[c] \in {"body", "fatalbody"}
    /\ pc[c] = "body" => op[c].name = "Flush"
    /\ LET w1 == BufFlush(World)
           hasFile == logFile # NoFile
           tried == w1.ok /\ hasFile
           syncErr == tried /\ ~FileUsable(files, logFile)
       IN  /\ Commit(w1)
           /\ lastFlush' = [done |-> TRUE, flushErr |-> ~w1.ok, hadFile |-> hasFile,
                            syncTried |-> tried, syncErr |-> syncErr]
           /\ IF pc[c] = "fatalbody"
              THEN FatalExit(c)
              ELSE /\ Return(c, IF ~w1.ok \/ syncErr THEN "error" ELSE "nil")
                   /\ UNCHANGED <<files, exited>>
    /\ mu' = Unlocked
    /\ UNCHANGED <<logLevel, sink, logFile, fault, nCalls, variant, hist>>
    /\ lastCall' = OtherCall

\* Close: flush, then close the held file; l.logFile and the writer stay.
Close(c) ==
    /\ At(c, "body") /\ op[c].name = "Close"
    /\ LET w1 == BufFlush(World)
           hasFile == logFile # NoFile
           closeErr == hasFile /\ CloseErr(files, logFile)
       IN  /\ Commit(w1)
           /\ files' = IF hasFile THEN CloseFile(files, logFile) ELSE files
           /\ Return(c, IF ~w1.ok \/ closeErr THEN "error" ELSE "nil")
           /\ lastCall' = [name |-> "Close", level |-> 0, err |-> ~w1.ok \/ closeErr,
                           again |-> lastCall.name = "Close"]
    /\ mu' = Unlocked
    /\ UNCHANGED <<logLevel, sink, logFile, fault, exited, nCalls, variant, hist,
                   lastFlush>>

----------------------------------------------------------------------------
(* Log and Logf *)

\* Mutant: the threshold check is off by one level.
ShouldEmitOffByOne(level, minLevel) == ~(level + 1 < minLevel)

\* Mutant: the threshold check is missing.
ShouldEmitAlways(level, minLevel) == TRUE

\* level < l.logLevel returns early
ShouldEmit(level, minLevel) == ~(level < minLevel)

Accepted == [stage |-> "accepted", file |-> NoFile, caller |-> "none"]
Rejected == [stage |-> "rejected", file |-> NoFile, caller |-> "none"]

\* Mutant: an accepted call asks for the exclusive lock with the read lock held.
LogCheckKeepsRLock(c) ==
    /\ At(c, "check")
    /\ IF ShouldEmit(op[c].level, logLevel)
       THEN /\ pc' = [pc EXCEPT ![c] = "lock"]
            /\ hist' = [hist EXCEPT ![op[c].id] = [Accepted EXCEPT !.caller = c]]
            /\ UNCHANGED <<mu, op, ret>>
       ELSE /\ mu' = [mu EXCEPT !.readers = @ \ {c}]
            /\ Return(c, "nil")
            /\ hist' = [hist EXCEPT ![op[c].id] = Rejected]
    /\ UNCHANGED <<logLevel, buf, bufErr, sink, logFile, files, disk, console, fault,
                   exited, nCalls, variant, lastFlush, writeFailed, lastCall>>

\* The threshold check under the read lock, and RUnlock.
LogCheck(c) ==
    /\ At(c, "check")
    /\ mu' = [mu EXCEPT !.readers = @ \ {c}]
    /\ IF ShouldEmit(op[c].level, logLevel)
       THEN /\ pc' = [pc EXCEPT ![c] = "lock"]
            /\ hist' = [hist EXCEPT ![op[c].id] = [Accepted EXCEPT !.caller = c]]
            /\ UNCHANGED <<op, ret>>
       ELSE /\ Return(c, "nil")
            /\ hist' = [hist EXCEPT ![op[c].id] = Rejected]
    /\ UNCHANGED <<logLevel, buf, bufErr, sink, logFile, files, disk, console, fault,
                   exited, nCalls, variant, lastFlush, writeFailed, lastCall>>

\* l.logger.Println: the formatted message ...
LogPrint(c) ==
    /\ At(c, "print")
    /\ \E text \in Texts :
        LET w1 == BufWrite(World, formatMessage(op[c].level, op[c].id, text))
        IN  /\ Commit(w1)
            /\ op' = [op EXCEPT ![c].text = text]
            /\ hist' = [hist EXCEPT ![op[c].id].stage = IF w1.ok THEN "written" ELSE "failed",
                                    ![op[c].id].file = sink.file]
    /\ pc' = [pc EXCEPT ![c] = "nl"]
    /\ UNCHANGED <<logLevel, mu, sink, logFile, files, fault, exited, ret, nCalls,
                   variant, lastFlush>>
    /\ lastCall' = OtherCall

\* ... then its newline, unless the message ends in one; then the Fatal test,
\* and Unlock for the other levels.
LogNewline(c) ==
    /\ At(c, "nl")
    /\ Commit(BufWrite(World, PrintlnSuffix(op[c].text)))
    /\ IF op[c].level = LogLevelFatal
       THEN /\ pc' = [pc EXCEPT ![c] = "fatalflush"]
            /\ UNCHANGED <<mu, op, ret>>
       ELSE /\ mu' = Unlocked
            /\ Return(c, "nil")
    /\ UNCHANGED <<logLevel, sink, logFile, files, fault, exited, nCalls, variant,
                   hist, lastFlush, lastCall>>

----------------------------------------------------------------------------
(* The file-only variant: what differs *)

\* The new buffered writer over the file alone
FileSink(h) == [file |-> h, console |-> FALSE]

\* SetOutput: flush (the error is dropped), open the new file; on success close
\* the held file and install the new writer and file.
SetOutputToA(c, filePath) ==
    LET w1 == BufFlush(World)
        h == Len(files) + 1
    IN  /\ console' = w1.console
        /\ disk' = w1.disk
        /\ writeFailed' = w1.failed
        /\ IF ~CanOpen(filePath)
           THEN /\ buf' = w1.buf
                /\ bufErr' = w1.err
                /\ UNCHANGED <<sink, logFile, files>>
                /\ Return(c, "error")
           ELSE /\ files' = Append(IF logFile # NoFile THEN CloseFile(files, logFile)
                                   ELSE files,
                                   [path |-> filePath, open |-> TRUE])
                /\ sink' = FileSink(h)
                /\ buf' = <<>>
                /\ bufErr' = FALSE
                /\ logFile' = h
                /\ Return(c, "nil")

SetOutputA(c) ==
    /\ At(c, "body") /\ op[c].name = "SetOutput"
    /\ \E filePath \in Paths \cup {BadPath} :
        /\ CanOpen(filePath) => Len(files) < MaxOpens
        /\ SetOutputToA(c, filePath)
    /\ mu' = Unlocked
    /\ UNCHANGED <<logLevel, fault, exited, nCalls, variant, hist, lastFlush>>
    /\ lastCall' = OtherCall

\* Flush: the buffer only.
FlushA(c) ==
    /\ ~exited /\ pc[c] \in {"body", "fatalbody"}
    /\ pc[c] = "body" => op[c].name = "Flush"
    /\ LET w1 == BufFlush(World)
       IN  /\ Commit(w1)
           /\ lastFlush' = [done |-> TRUE, flushErr |-> ~w1.ok,
                            hadFile |-> logFile # NoFile,
                            syncTried |-> FALSE, syncErr |-> FALSE]
           /\ IF pc[c] = "fatalbody"
              THEN FatalExit(c)
              ELSE /\ Return(c, IF w1.ok THEN "nil" ELSE "error")
                   /\ UNCHANGED <<files, exited>>
    /\ mu' = Unlocked
    /\ UNCHANGED <<logLevel, sink, logFile, fault, nCalls, variant, hist>>
    /\ lastCall' = OtherCall

\* Log takes the exclusive lock first and checks the threshold under it.
LogCheckA(c) ==
    /\ At(c, "check")
    /\ \E level \in InLevels :
        IF ShouldEmit(level, logLevel)
        THEN /\ pc' = [pc EXCEPT ![c] = "print"]
             /\ op' = [op EXCEPT ![c].level = level]
             /\ hist' = [hist EXCEPT ![op[c].id] = [Accepted EXCEPT !.caller = c]]
             /\ UNCHANGED <<mu, ret>>
        ELSE /\ mu' = Unlocked
             /\ Return(c, "nil")
             /\ hist' = [hist EXCEPT ![op[c].id] = Rejected]
    /\ UNCHANGED <<logLevel, buf, bufErr, sink, logFile, files, disk, console, fault,
                   exited, nCalls, variant, lastFlush, writeFailed, lastCall>>

----------------------------------------------------------------------------
(* Specifications *)

\* The steps of a call once it has begun
Proceed(c) ==
    \/ Lock(c)
    \/ RLock(c)
    \/ SetLogLevel(c)
    \/ SetOutput(c)
    \/ Flush(c)
    \/ Close(c)
    \/ LogCheck(c)
    \/ LogPrint(c)
    \/ LogNewline(c)

Step(c) ==
    \/ CallSetLogLevel(c)
    \/ CallSetOutput(c)
    \/ CallFlush(c)
    \/ CallClose(c)
    \/ CallLog(c)
    \/ Proceed(c)

Next == DiskFault \/ \E c \in Callers : Step(c)

Spec == Init /\ [][Next]_vars

\* A caller that can take its next step takes it: goroutines are scheduled,
\* and sync.RWMutex hands the lock to a waiting caller.
FairSpec == Spec /\ \A c \in Callers : SF_vars(Proceed(c))

ProceedA(c) ==
    \/ Lock(c)
    \/ SetLogLevel(c)
    \/ SetOutputA(c)
    \/ FlushA(c)
    \/ LogCheckA(c)
    \/ LogPrint(c)
    \/ LogNewline(c)

StepA(c) ==
    \/ CallSetLogLevel(c)
    \/ CallSetOutput(c)
    \/ CallFlush(c)
    \/ CallLogA(c)
    \/ ProceedA(c)

NextA == DiskFault \/ \E c \in Callers : StepA(c)

SpecA == InitA /\ [][NextA]_vars

----------------------------------------------------------------------------
(* Properties *)

Calls == 1 .. MaxCalls

\* Message i occurs in the stream s / how often.
InStream(s, i) == \E k \in 1 .. Len(s) : s[k].kind = "msg" /\ s[k].id = i

Count(s, i) == Cardinality({k \in 1 .. Len(s) : s[k].kind = "msg" /\ s[k].id = i})

OpenFiles == {h \in 1 .. Len(files) : files[h].open}

\* The step in which c's SetOutput returns an error / c's Flush returns nil /
\* c's Flush or Close returns.
SetOutputFails(c) == pc[c] = "body" /\ op[c].name = "SetOutput" /\ ret'[c] = "error"

FlushReturnsNil(c) == pc[c] = "body" /\ op[c].name = "Flush" /\ ret'[c] = "nil"

FlushOrCloseReturns(c) ==
    pc[c] = "body" /\ op[c].name \in {"Flush", "Close"} /\ pc'[c] = "idle"

\* C1: a SetOutput that fails to open its path leaves the sink as it was: the
\* same writer and file, and every file that was open is still open.
C1_FailedSetOutputKeepsSink ==
    [][\A c \in Callers : SetOutputFails(c) =>
          /\ sink' = sink
          /\ logFile' = logFile
          /\ \A h \in OpenFiles : files'[h].open]_vars

\* C2: a Fatal write that passed the threshold check ends in os.Exit.
C2_FatalWriteExits ==
    \A c \in Callers :
        (pc[c] = "lock" /\ op[c].name = "Log" /\ op[c].level = LogLevelFatal) ~> exited

\* C3: once the [FATAL] line is written, the process exits with that line in
\* the output and nothing left in the buffer.
C3_FatalLineFlushedThenExit ==
    \A c \in Callers :
        (pc[c] = "fatalflush")
            ~> (exited /\ buf = <<>> /\ InStream(console, op[c].id))

\* C4: the exclusive sections exclude each other and the level-read section,
\* and nothing is written to the sink between a line's message and its newline.
InExclusive(c) == pc[c] \in {"body", "print", "nl", "fatalflush", "fatalbody"}

InLevelRead(c) == pc[c] = "check"

MidLine(c) == pc[c] = "nl" /\ hist[op[c].id].stage = "written"

C4_MutualExclusion ==
    /\ \A c, d \in Callers :
          c # d => /\ ~(InExclusive(c) /\ InExclusive(d))
                   /\ ~(InLevelRead(c) /\ InExclusive(d))
    /\ \A c \in Callers :
          MidLine(c) =>
             /\ buf # <<>>
             /\ LET line == formatMessage(op[c].level, op[c].id, op[c].text)
                IN  buf[Len(buf)] = line[Len(line)]

\* One caller is between the message and the newline of its line while the
\* other, accepted too, waits for the lock.
C4_Witness ==
    \E c, d \in Callers :
        /\ MidLine(c)
        /\ pc[d] = "lock" /\ op[d].name = "Log"

\* C5: a Log call below the threshold returns from the check without touching
\* the buffer, the destinations, the level, the sink or the file, and never
\* holds the exclusive lock.
C5_RejectedWriteDoesNothing ==
    [][\A c \in Callers :
          (InLevelRead(c) /\ op[c].level < logLevel /\ ~InLevelRead(c)') =>
              /\ pc'[c] = "idle"
              /\ mu.writer # c /\ mu'.writer # c
              /\ UNCHANGED <<logLevel, buf, bufErr, sink, logFile, files, disk,
                             console>>]_vars

\* A call was rejected while an accepted line sits in the buffer.
C5_Witness ==
    /\ \E i \in Calls : hist[i].stage = "rejected"
    /\ buf # <<>>

\* C6: while no destination write has failed, every line written by a Log call
\* is in the console output (or still buffered) exactly once, and in its file
\* (or still buffered) exactly once, or in no file when none was open; the
\* output is messages and newlines in turn, ending in a message only while
\* that line's newline is being written; and a Flush that returns nil leaves
\* the buffer empty.
Alternates(s) ==
    /\ \A k \in 1 .. Len(s) : (s[k].kind = "msg") = (k % 2 = 1)
    /\ Len(s) % 2 = 1 => \E c \in Callers : pc[c] = "nl"

Pending(h) == IF sink.file = h THEN buf ELSE <<>>

OneLineEach ==
    /\ \A i \in Calls :
          hist[i].stage = "written" =>
             /\ Count(console \o buf, i) = 1
             /\ \A p \in Paths :
                   LET h == hist[i].file
                       here == h # NoFile /\ files[h].path = p
                   IN  Count(disk[p] \o (IF here THEN Pending(h) ELSE <<>>), i)
                          = (IF here THEN 1 ELSE 0)
    /\ Alternates(console \o buf)
    /\ \A p \in Paths :
          Alternates(disk[p] \o (IF sink.file # NoFile /\ files[sink.file].path = p
                                 THEN buf ELSE <<>>))

InFile(i, dsk) == InStream(dsk[files[hist[i].file].path], i)

InBoth(i, con, dsk) == InStream(con, i) /\ InFile(i, dsk)

ToFile(i) == hist[i].stage = "written" /\ hist[i].file # NoFile

C7_FileAndConsole ==
    [][/\ \A i \in Calls :
             (ToFile(i) /\ (InStream(console, i) \/ InFile(i, disk)))'
                => InBoth(i, console, disk)'
       /\ \A c \in Callers :
             FlushReturnsNil(c) =>
                \A i \in Calls :
                   (ToFile(i) /\ InStream(buf, i)) => InBoth(i, console', disk')]_vars

\* After the second successful SetOutput a line was written and flushed.
C7_Witness ==
    \E i \in Calls :
        /\ ToFile(i) /\ hist[i].file = 2
        /\ ~InStream(buf, i)
        /\ InBoth(i, console, disk)

\* C8: when the file system works and a Flush or Close returns, every line an
\* earlier Log call handed to the sink is in the output.
C8_AcceptedLinesDelivered ==
    [][\A c \in Callers :
          (FlushOrCloseReturns(c) /\ ~fault) =>
             \A i \in Calls :
                hist[i].stage \in {"written", "failed"} => InStream(console', i)]_vars

\* C9: at most one file opened by the logger is open.
C9_AtMostOneOpenFile == Cardinality(OpenFiles) <= 1

\* A second SetOutput succeeded: its file is open, the first is closed.
C9_Witness == Len(files) = 2 /\ files[2].open /\ ~files[1].open

\* C10: a Flush with a backing file held attempts the file's Sync, also when
\* the buffer flush failed.
C10_FlushAlwaysSyncs == (lastFlush.done /\ lastFlush.hadFile) => lastFlush.syncTried

\* The step in which c's Close acts.
CloseActs(c) == pc[c] = "body" /\ op[c].name = "Close" /\ pc'[c] = "idle"

\* The last operation on the logger was a Close that returned nil.
JustClosed == lastCall.name = "Close" /\ ~lastCall.err

\* C11: with a working file system, a Close right after a Close that returned
\* nil returns nil and changes nothing; and a Close when no file was ever
\* opened returns nil after flushing the buffer.
C11_CloseIdempotent ==
    [][\A c \in Callers :
          /\ (CloseActs(c) /\ JustClosed /\ ~fault) =>
                /\ ret'[c] = "nil"
                /\ UNCHANGED <<logLevel, buf, bufErr, sink, logFile, files, disk,
                               console>>
          /\ (CloseActs(c) /\ files = <<>>) =>
                /\ ret'[c] = "nil"
                /\ buf' = <<>> /\ console' = console \o buf
                /\ UNCHANGED <<logLevel, sink, logFile, files, disk>>]_vars

\* What each destination has received or will receive from the buffer.
ConsoleOut == console \o (IF sink.console THEN buf ELSE <<>>)

FileOut(p) ==
    disk[p] \o (IF sink.file # NoFile /\ files[sink.file].path = p THEN buf ELSE <<>>)

\* In s message i comes before message j, where both occur.
Before(s, i, j) ==
    \A k, l \in 1 .. Len(s) :
        (s[k].kind = "msg" /\ s[k].id = i /\ s[l].kind = "msg" /\ s[l].id = j) => k < l

\* Calls i and j are writes of one caller, i the earlier one.
SameCaller(i, j) ==
    /\ i < j
    /\ hist[i].stage = "written" /\ hist[j].stage = "written"
    /\ hist[i].caller = hist[j].caller

\* C12: of two lines one caller wrote one after the other, the first comes
\* before the second in the console output and in every file; and while no
\* write has failed the console has the second only after the first.
C12_CallOrder ==
    \A i, j \in Calls :
        SameCaller(i, j) =>
            /\ Before(ConsoleOut, i, j)
            /\ \A p \in Paths : Before(FileOut(p), i, j)
            /\ (~writeFailed /\ InStream(ConsoleOut, j)) => InStream(ConsoleOut, i)

\* Two lines of one caller are on the console with a line of the other caller
\* between them.
C12_Witness ==
    \E i, j, k \in Calls :
        /\ SameCaller(i, j)
        /\ hist[k].stage = "written" /\ hist[k].caller # hist[i].caller
        /\ InStream(console, i) /\ InStream(console, j) /\ InStream(console, k)
        /\ Before(console, i, k) /\ Before(console, k, j)

\* c is in a Log call below Fatal, past the threshold check.
InNonFatalWrite(c) ==
    pc[c] \in {"print", "nl"} /\ op[c].name = "Log" /\ op[c].level # LogLevelFatal

\* C13: a Log call below Fatal that writes to the sink changes neither the
\* threshold nor the sink, the file handle or the open files, does not exit,
\* and after its last write returns with the lock released, also when the
\* write failed.
C13_LogSwallowsWriteError ==
    [][\A c \in Callers :
          (InNonFatalWrite(c) /\ pc'[c] # pc[c]) =>
              /\ UNCHANGED <<logLevel, sink, logFile, files, exited>>
              /\ pc[c] = "nl" =>
                    /\ pc'[c] = "idle" /\ ret'[c] = "nil"
                    /\ mu'.writer = "none" /\ c \notin mu'.readers]_vars

\* A write failed, its call and every other have returned, the lock is free
\* and the process runs.  (A Fatal call never returns to idle.)
C13_Witness ==
    /\ \E i \in Calls : hist[i].stage = "failed"
    /\ \A c \in Callers : pc[c] = "idle"
    /\ mu.writer = "none"
    /\ ~exited

\* The step in which c's SetLogLevel acts.
SetLogLevelActs(c) == pc[c] = "body" /\ op[c].name = "SetLogLevel" /\ pc'[c] = "idle"

\* C14: SetLogLevel(v) leaves the threshold at v and the buffer, its error,
\* the sink, the file handle, the files and the output as they were; when the
\* operation before it was SetLogLevel(v) too, it changes nothing at all.
C14_SetLogLevelIdempotent ==
    [][\A c \in Callers :
          SetLogLevelActs(c) =>
              /\ lastCall'.name = "SetLogLevel" /\ logLevel' = lastCall'.level
              /\ UNCHANGED <<buf, bufErr, sink, logFile, files, disk, console>>
              /\ lastCall'.again => logLevel' = logLevel]_vars

\* SetLogLevel(Warning) acted twice in a row while a line was buffered and a
\* file was open.
C14_Witness ==
    /\ lastCall.name = "SetLogLevel" /\ lastCall.again
    /\ lastCall.level = LogLevelWarning /\ logLevel = LogLevelWarning
    /\ buf # <<>> /\ logFile # NoFile

\* C15: Log decides at its check, holding the read lock with no writer, by
\* the threshold of that moment: it goes on exactly when its level is not
\* below it.  It writes its line later, as the writer and with no reader,
\* whatever the threshold is by then.
C15_CheckThenWrite ==
    [][\A c \in Callers :
          /\ (InLevelRead(c) /\ ~InLevelRead(c)') =>
                /\ c \in mu.readers /\ mu.writer = "none"
                /\ (pc'[c] = "lock") = (op[c].level >= logLevel)
                /\ (pc'[c] = "idle") = (op[c].level < logLevel)
          /\ (pc[c] = "print" /\ pc'[c] # "print") =>
                /\ mu.writer = c /\ mu.readers = {}
                /\ hist[op[c].id].stage = "accepted"
                /\ hist'[op[c].id].stage \in {"written", "failed"}
                /\ hist'[op[c].id].stage = "written" =>
                      InStream(buf' \o console', op[c].id)]_vars

\* A line has just been written whose level is below the threshold: a
\* SetLogLevel raised it between the check and the write.
C15_Witness ==
    \E c \in Callers :
        /\ pc[c] = "nl" /\ hist[op[c].id].stage = "written"
        /\ InStream(buf, op[c].id)
        /\ op[c].level < logLevel

\* C16: Close leaves the held file closed, also when the flush failed; it
\* returns an error exactly when the flush failed (the writer has its error
\* afterwards) or the file was closed already; when it returns nil the buffer
\* is empty and its bytes are on the console.
C16_CloseFlushesThenCloses ==
    [][\A c \in Callers :
          CloseActs(c) =>
              /\ logFile # NoFile => ~files'[logFile].open
              /\ (ret'[c] = "error") =
                    (bufErr' \/ (logFile # NoFile /\ ~files[logFile].open))
              /\ ret'[c] \in {"nil", "error"}
              /\ ret'[c] = "nil" => (buf' = <<>> /\ console' = console \o buf)]_vars

\* SetOutput, a Log and the disk's failure, then Close: the flush failed, the
\* file was closed all the same and Close returned the error.
C16_Witness ==
    /\ nCalls = 3 /\ Len(files) = 1 /\ fault
    /\ \E i \in Calls : hist[i].stage = "written" /\ hist[i].file = 1
    /\ lastCall.name = "Close" /\ lastCall.err /\ ~lastCall.again
    /\ bufErr /\ buf # <<>>
    /\ ~files[1].open

\* A Fatal write is under way (it never returns: C2).
FatalWrite == \E d \in Callers : op[d].name = "Log" /\ op[d].level = LogLevelFatal

AllIdle == \A c \in Callers : pc[c] = "idle"

LockFree == mu.writer = "none" /\ mu.readers = {}

\* C17: under fair scheduling every call returns, unless a Fatal write is
\* made; and the lock is free whenever no call is in progress.
C17_NonFatalCallsReturn ==
    /\ \A c \in Callers : (pc[c] # "idle") ~> (pc[c] = "idle" \/ FatalWrite)
    /\ [](AllIdle => LockFree)

\* Every call the bound allows was made and has returned, both callers wrote
\* a line, and the lock is free.
C17_Witness ==
    /\ nCalls = MaxCalls /\ AllIdle /\ LockFree /\ ~exited
    /\ \A c \in Callers : \E i \in Calls : hist[i].stage = "written" /\ hist[i].caller = c

\* The step in which c's SetOutput succeeds.
SetOutputSucceeds(c) == pc[c] = "body" /\ op[c].name = "SetOutput" /\ ret'[c] = "nil"

\* A written line is in no file but the one that was open when it was written.
OnlyOwnFile ==
    \A i \in Calls : \A p \in Paths :
        (hist[i].stage = "written" /\ InStream(disk[p], i)) =>
            (hist[i].file # NoFile /\ files[hist[i].file].path = p)

\* On the console the lines written before a redirection come before the
\* lines written after it.
ConsoleOrderAcrossSwitch ==
    \A i, j \in Calls :
        (hist[i].stage = "written" /\ hist[j].stage = "written"
            /\ hist[i].file < hist[j].file) => Before(console, i, j)

\* The lines in the buffer are, after the step, on the console and in the
\* file that was open when they were written.
OldLinesDelivered ==
    \A i \in Calls :
        (hist[i].stage = "written" /\ InStream(buf, i)) =>
            /\ InStream(console', i)
            /\ hist[i].file # NoFile => InStream(disk'[files[hist[i].file].path], i)

\* C18: a successful SetOutput on a working file system delivers the buffered
\* lines to the destinations they were written for; no line is ever in a file
\* other than the one open when it was written; the console keeps the lines
\* of before and after a redirection in that order.
C18_RedirectionSplitsOutput ==
    [][/\ OnlyOwnFile'
       /\ ConsoleOrderAcrossSwitch'
       /\ \A c \in Callers :
             (SetOutputSucceeds(c) /\ ~fault) => OldLinesDelivered]_vars

\* C19: when no call is in progress and the process runs, the file handle the
\* logger holds is open and so is the file the sink writes to.
C19_NoClosedFileInSink ==
    (AllIdle /\ ~exited) =>
        /\ logFile # NoFile => files[logFile].open
        /\ sink.file # NoFile => files[sink.file].open

====
